---- MODULE Spec2Model ----
(***************************************************************************)
(* Model of the AudioRecorder component (src/frontend/lib/api.ts, lines    *)
(* 71-420): its React state, its refs, the microphone streams and          *)
(* MediaRecorder objects it creates, and the browser tasks (getUserMedia   *)
(* completion, dataavailable, stop, interval ticks, upload completion)     *)
(* that run its callbacks.                                                 *)
(*                                                                         *)
(* Browser semantics used: a click handler runs to completion and React 18 *)
(* commits its state updates and passive effects before the next task;     *)
(* MediaRecorder.stop() makes the recorder inactive and queues one task    *)
(* that fires dataavailable and then stop; stopping every track of a       *)
(* stream inactivates an active recorder of that stream the same way;      *)
(* pause()/resume() on an inactive recorder throw InvalidStateError and    *)
(* stop() on an inactive recorder does nothing; state setters of an        *)
(* unmounted component do nothing.  A stream's tracks end only when the    *)
(* component stops them.                                                   *)
(***************************************************************************)
EXTENDS Integers, Sequences, FiniteSets, TLC

\* ---- bounds -------------------------------------------------------------
\* number of getUserMedia calls (streams / recorders) one run may issue
MaxStarts == 2
\* cap of the elapsed-seconds counter
MaxDuration == 2
\* largest size of one delivered chunk (0 = empty chunk)
MaxChunkSize == 1

\* quanta into which the model divides one second of the timer's interval
QuantaPerSecond == 4
\* number of pauseRecording calls in one timed session
MaxPauses == 2

\* largest argument given to formatDuration
MaxSeconds == 6000
\* longest content line given to the emitters' body loops
MaxLineLen == 6
\* longest content typed into the viewer's textarea
MaxContentLen == 2
\* number of pages of one exported pdf
MaxPages == 2
\* largest number of sub-lines splitTextToSize wraps an ordinary line into
MaxWrap == 3
\* number of sub-lines of a long paragraph written as one line
LongWrap == 60
\* number of tokens the login endpoint issues in one run
MaxLogins == 2
\* number of exports and copies in one run of editing and saving
MaxExports == 1
\* number of docx exports waiting for Packer.toBlob at one time
MaxPacking == 1
\* number of startRecording calls in a run of record/stop/discard cycles
MaxCycleStarts == 3

Ids == 1..(IF MaxCycleStarts > MaxStarts THEN MaxCycleStarts ELSE MaxStarts)

\* ---- state --------------------------------------------------------------
VARIABLES
  mounted,          \* the component is mounted
  isSupported,      \* useState isSupported (navigator.mediaDevices exists)
  recordingState,   \* useState recordingState
  duration,         \* useState duration
  audioBlob,        \* useState audioBlob
  audioUrl,         \* useState audioUrl (0 is the empty string)
  isUploading,      \* useState isUploading
  mediaRecorderRef, \* useRef (0 is null), the id of the recorder
  chunksRef,        \* useRef, sequence of chunks
  timerRef,         \* TRUE while an interval created by the timer effect is live
  streamRef,        \* useRef (0 is null), the id of the stream
  acq,              \* per getUserMedia call: unused/pending/open/stopped/rejected
  rec,              \* per MediaRecorder: none/recording/paused/inactive
  ev,               \* per MediaRecorder: its dataavailable+stop task is queued
  liveUrls,         \* object URLs created and not revoked
  nextUrl,          \* number of object URLs created so far
  upload,           \* the upload request in flight
  uploaded,         \* number of onRecordingUploaded calls
  toasts,           \* the notifications shown by the latest step, in order
  \* the recorder's timing, observed in quanta of a second
  recorded,         \* time spent in state 'recording' since the session began
  sinceTick,        \* time since the live interval was created or last fired
  pauses,           \* number of pauseRecording calls of the session
  \* calls made to the handlers directly
  called,           \* the handler the latest step called ("none" for a task)
  discarded,        \* recorders whose session discardRecording has reset
  \* the duration display
  seconds,          \* the argument of formatDuration
  shown,            \* the string formatDuration returned for it
  \* LetterViewer
  letter,           \* the letter prop
  editedContent,    \* useState editedContent
  isEditing,        \* useState isEditing
  today,            \* new Date().toISOString().split('T')[0]
  saved,            \* per format, the file last handed to the browser's file-save
  packing,          \* docx exports awaiting Packer.toBlob
  \* the export emitters, one content line at a time
  line,             \* a line of editedContent.split('\n')
  pdfLine,          \* what the pdf body loop draws for it
  docxLine,         \* the paragraph the docx body loop pushes for it
  \* the pdf emitter's vertical cursor
  yPosition,        \* let yPosition
  pages,            \* number of pages of the jsPDF document
  textTop,          \* where the latest step put its first line of text
  textBottom,       \* where it put its last line (0: it drew no text)
  pdfStage,         \* "idle", "new", "body" or "saved"
  \* the stored session
  localStorage,     \* the items 'token' and 'user' (0 is absent)
  pathname,         \* window.location.pathname
  loginStep,        \* where LoginForm's onSubmit is: "idle", "login" or "me"
  fetching,         \* a protected page's request is in flight
  issued,           \* number of tokens issued so far
  notice,           \* the toast of the latest step
  \* LetterViewer: saving and copying
  isSaving,         \* useState isSaving
  isCopying,        \* useState isCopying
  patch,            \* the PATCH request in flight
  clipboard         \* what navigator.clipboard holds

recorderVars == <<mounted, isSupported, recordingState, duration, audioBlob,
                  audioUrl, isUploading, mediaRecorderRef, chunksRef, timerRef,
                  streamRef, acq, rec, ev, liveUrls, nextUrl, upload, uploaded,
                  toasts>>

timeVars   == <<recorded, sinceTick, pauses>>
fmtVars    == <<seconds, shown>>
lineVars   == <<line, pdfLine, docxLine>>
pdfVars    == <<yPosition, pages, textTop, textBottom, pdfStage>>
authVars   == <<localStorage, pathname, loginStep, fetching, issued, notice>>
saveVars   == <<isSaving, isCopying, patch, clipboard>>
otherVars  == <<lineVars, pdfVars, authVars, saveVars>>
viewerVars == <<letter, editedContent, isEditing, today, saved, packing>>
\* the state of the other components, which the recorder never touches
aux        == <<timeVars, called, discarded, fmtVars, otherVars, viewerVars>>
vars       == <<recorderVars, aux>>

reactState == <<recordingState, duration, audioBlob, audioUrl, isUploading>>
refs       == <<mediaRecorderRef, chunksRef, streamRef>>
device     == <<acq, rec, ev>>
urlState   == <<liveUrls, nextUrl>>
uploadSt   == <<upload, uploaded>>

RecordingState == {"idle", "recording", "paused", "stopped"}

NoBlob == [defined |-> FALSE, parts |-> <<>>]
Blob(parts) == [defined |-> TRUE, parts |-> parts]

NoUpload == [active |-> FALSE, url |-> 0, parts |-> <<>>]

Chunk(k, n) == [rec |-> k, size |-> n]

\* streams whose tracks are live
OpenStreams == {k \in Ids : acq[k] = "open"}

\* AudioRecorder after its first render and mount effect
RecorderInit ==
  /\ mounted = TRUE
  /\ isSupported \in BOOLEAN
  /\ recordingState = "idle"
  /\ duration = 0
  /\ audioBlob = NoBlob
  /\ audioUrl = 0
  /\ isUploading = FALSE
  /\ mediaRecorderRef = 0
  /\ chunksRef = <<>>
  /\ timerRef = FALSE
  /\ streamRef = 0
  /\ acq = [k \in Ids |-> "unused"]
  /\ rec = [k \in Ids |-> "none"]
  /\ ev = [k \in Ids |-> FALSE]
  /\ liveUrls = {}
  /\ nextUrl = 0
  /\ upload = NoUpload
  /\ uploaded = 0
  /\ toasts = IF isSupported THEN <<>> ELSE <<"error_unsupported">>

\* no letter is open in the viewer, nothing was exported
NoLetter == [letter_type |-> "other", patient_name |-> "undefined",
             patient_age |-> "undefined", patient_gender |-> "undefined",
             content |-> <<>>]
NoFile == [name |-> <<>>, payload |-> <<>>]
Formats == {"txt", "pdf", "docx"}

TimeIdle == recorded = 0 /\ sinceTick = 0 /\ pauses = 0 /\ called = "none"
            /\ discarded = {}
FmtIdle == seconds = 0 /\ shown = <<>>
ViewerIdle ==
  /\ letter = NoLetter /\ editedContent = <<>> /\ isEditing = FALSE
  /\ today = "" /\ saved = [f \in Formats |-> NoFile] /\ packing = <<>>

NoLine == [class |-> "none"]
LineIdle == line = <<>> /\ pdfLine = NoLine /\ docxLine = NoLine
PdfIdle ==
  /\ yPosition = 0 /\ pages = 0
  /\ textTop = 0 /\ textBottom = 0 /\ pdfStage = "idle"
NoSession == [token |-> 0, user |-> 0]
AuthIdle ==
  /\ localStorage = NoSession /\ pathname = "/auth/login"
  /\ loginStep = "idle" /\ fetching = FALSE /\ issued = 0 /\ notice = "none"
NoPatch == [active |-> FALSE, content |-> <<>>]
NoClip == [written |-> FALSE, text |-> <<>>]
SaveIdle ==
  /\ isSaving = FALSE /\ isCopying = FALSE /\ patch = NoPatch /\ clipboard = NoClip
OtherIdle == LineIdle /\ PdfIdle /\ AuthIdle /\ SaveIdle

Init == RecorderInit /\ TimeIdle /\ FmtIdle /\ OtherIdle /\ ViewerIdle

\* ---- helpers ------------------------------------------------------------
\* a state setter acts only while the component is mounted
SetState(old, new) == IF mounted THEN new ELSE old

\* the timer effect, run after a commit that changed recordingState:
\* an interval is live exactly when the committed state is 'recording'
TimerEffect(newState) == mounted /\ newState = "recording"

\* stream.getTracks().forEach(track => track.stop()) on stream s:
\* the stream ends, and a recorder still recording it is inactivated
StopTracksAcq(a, s) == IF s = 0 THEN a ELSE [a EXCEPT ![s] = "stopped"]
Inactivated(r, s) == s # 0 /\ r[s] \in {"recording", "paused"}
StopTracksRec(r, s) == IF Inactivated(r, s) THEN [r EXCEPT ![s] = "inactive"] ELSE r
StopTracksEv(r, e, s) == IF Inactivated(r, s) THEN [e EXCEPT ![s] = TRUE] ELSE e

\* ---- startRecording -----------------------------------------------------
\* the id the next getUserMedia call gets (0 when the bound is reached)
NextId == IF \E k \in Ids : acq[k] = "unused"
          THEN CHOOSE k \in Ids : acq[k] = "unused" /\ \A j \in 1..(k-1) : acq[j] # "unused"
          ELSE 0

\* startRecording up to its await: getUserMedia is called and is pending;
\* without navigator.mediaDevices the call throws and the catch block runs
startRecording ==
  /\ NextId # 0
  /\ IF isSupported
     THEN /\ acq' = [acq EXCEPT ![NextId] = "pending"]
          /\ toasts' = <<>>
     ELSE /\ toasts' = <<"error_failed">>
          /\ UNCHANGED acq
  /\ UNCHANGED <<mounted, isSupported, reactState, refs, timerRef, rec, ev,
                 urlState, uploadSt>>

\* AcquireReject with a catch block that swallows the error silently
AcquireReject_Silent(k, name) ==
  /\ acq[k] = "pending"
  /\ acq' = [acq EXCEPT ![k] = "rejected"]
  /\ toasts' = <<>>
  /\ UNCHANGED <<mounted, isSupported, reactState, refs, timerRef, rec, ev,
                 urlState, uploadSt>>

\* getUserMedia rejects: the catch block shows a toast
AcquireReject(k, name) ==
  /\ acq[k] = "pending"
  /\ acq' = [acq EXCEPT ![k] = "rejected"]
  /\ toasts' = IF name = "NotAllowedError" THEN <<"error_denied">> ELSE <<"error_failed">>
  /\ UNCHANGED <<mounted, isSupported, reactState, refs, timerRef, rec, ev,
                 urlState, uploadSt>>

\* getUserMedia resolves and the rest of startRecording runs; outcome says
\* whether new MediaRecorder(...) throws, mediaRecorder.start() throws, or
\* neither
AcquireResolve(k, outcome) ==
  /\ acq[k] = "pending"
  /\ acq' = [acq EXCEPT ![k] = "open"]
  /\ streamRef' = k
  /\ CASE outcome = "ctor_throws" ->
            /\ toasts' = <<"error_failed">>
            /\ UNCHANGED <<mediaRecorderRef, chunksRef, rec, recordingState,
                           duration, timerRef>>
       [] outcome = "start_throws" ->
            /\ mediaRecorderRef' = k
            /\ chunksRef' = <<>>
            /\ rec' = [rec EXCEPT ![k] = "inactive"]
            /\ toasts' = <<"error_failed">>
            /\ UNCHANGED <<recordingState, duration, timerRef>>
       [] outcome = "ok" ->
            /\ mediaRecorderRef' = k
            /\ chunksRef' = <<>>
            /\ rec' = [rec EXCEPT ![k] = "recording"]
            /\ recordingState' = SetState(recordingState, "recording")
            /\ duration' = SetState(duration, 0)
            /\ timerRef' = TimerEffect(recordingState')
            /\ toasts' = <<"success_started">>
  /\ UNCHANGED <<mounted, isSupported, audioBlob, audioUrl, isUploading, ev,
                 urlState, uploadSt>>

\* ---- pause / resume / stop / discard -----------------------------------
\* pauseRecording with a timer effect that leaves the interval running
pauseRecording_TimerKept ==
  IF mediaRecorderRef # 0 /\ recordingState = "recording"
     /\ rec[mediaRecorderRef] # "inactive"
  THEN /\ rec' = [rec EXCEPT ![mediaRecorderRef] = "paused"]
       /\ recordingState' = SetState(recordingState, "paused")
       /\ toasts' = <<"info_paused">>
       /\ UNCHANGED <<mounted, isSupported, duration, audioBlob, audioUrl,
                      isUploading, refs, timerRef, acq, ev, urlState, uploadSt>>
  ELSE /\ toasts' = <<>>
       /\ UNCHANGED <<mounted, isSupported, reactState, refs, timerRef,
                      device, urlState, uploadSt>>

\* pauseRecording guarded by the recorder reference alone, setting the
\* state before it calls pause()
pauseRecording_NoStateGuard ==
  IF mediaRecorderRef # 0
  THEN /\ rec' = IF rec[mediaRecorderRef] = "recording"
                 THEN [rec EXCEPT ![mediaRecorderRef] = "paused"] ELSE rec
       /\ recordingState' = SetState(recordingState, "paused")
       /\ timerRef' = TimerEffect(recordingState')
       /\ toasts' = IF rec[mediaRecorderRef] = "inactive" THEN <<>> ELSE <<"info_paused">>
       /\ UNCHANGED <<mounted, isSupported, duration, audioBlob, audioUrl,
                      isUploading, refs, acq, ev, urlState, uploadSt>>
  ELSE /\ toasts' = <<>>
       /\ UNCHANGED <<mounted, isSupported, reactState, refs, timerRef,
                      device, urlState, uploadSt>>

pauseRecording ==
  IF mediaRecorderRef # 0 /\ recordingState = "recording"
     /\ rec[mediaRecorderRef] # "inactive"
  THEN /\ rec' = [rec EXCEPT ![mediaRecorderRef] = "paused"]
       /\ recordingState' = SetState(recordingState, "paused")
       /\ timerRef' = TimerEffect(recordingState')
       /\ toasts' = <<"info_paused">>
       /\ UNCHANGED <<mounted, isSupported, duration, audioBlob, audioUrl,
                      isUploading, refs, acq, ev, urlState, uploadSt>>
  ELSE \* guard false, or pause() throws InvalidStateError
       /\ toasts' = <<>>
       /\ UNCHANGED <<mounted, isSupported, reactState, refs, timerRef,
                      device, urlState, uploadSt>>

resumeRecording ==
  IF mediaRecorderRef # 0 /\ recordingState = "paused"
     /\ rec[mediaRecorderRef] # "inactive"
  THEN /\ rec' = [rec EXCEPT ![mediaRecorderRef] = "recording"]
       /\ recordingState' = SetState(recordingState, "recording")
       /\ timerRef' = TimerEffect(recordingState')
       /\ toasts' = <<"info_resumed">>
       /\ UNCHANGED <<mounted, isSupported, duration, audioBlob, audioUrl,
                      isUploading, refs, acq, ev, urlState, uploadSt>>
  ELSE \* guard false, or resume() throws InvalidStateError
       /\ toasts' = <<>>
       /\ UNCHANGED <<mounted, isSupported, reactState, refs, timerRef,
                      device, urlState, uploadSt>>

\* MediaRecorder.stop(): an active recorder becomes inactive and its
\* dataavailable and stop events are queued
RecorderStopRec(r, k) == IF r[k] \in {"recording", "paused"} THEN [r EXCEPT ![k] = "inactive"] ELSE r
RecorderStopEv(r, e, k) == IF r[k] \in {"recording", "paused"} THEN [e EXCEPT ![k] = TRUE] ELSE e

stopRecording ==
  IF mediaRecorderRef # 0
  THEN /\ rec' = RecorderStopRec(rec, mediaRecorderRef)
       /\ ev' = RecorderStopEv(rec, ev, mediaRecorderRef)
       /\ recordingState' = SetState(recordingState, "stopped")
       /\ timerRef' = TimerEffect(recordingState')
       /\ toasts' = <<"success_stopped">>
       /\ UNCHANGED <<mounted, isSupported, duration, audioBlob, audioUrl,
                      isUploading, refs, acq, urlState, uploadSt>>
  ELSE /\ toasts' = <<>>
       /\ UNCHANGED <<mounted, isSupported, reactState, refs, timerRef,
                      device, urlState, uploadSt>>

\* Discard without setAudioBlob(null)
Discard_BlobKept(url) ==
  /\ liveUrls' = liveUrls \ {url}
  /\ audioBlob' = audioBlob
  /\ audioUrl' = SetState(audioUrl, 0)
  /\ recordingState' = SetState(recordingState, "idle")
  /\ duration' = SetState(duration, 0)
  /\ timerRef' = TimerEffect(recordingState')
  /\ chunksRef' = <<>>

\* Discard without chunksRef.current = []
Discard_ChunksKept(url) ==
  /\ liveUrls' = liveUrls \ {url}
  /\ audioBlob' = SetState(audioBlob, NoBlob)
  /\ audioUrl' = SetState(audioUrl, 0)
  /\ recordingState' = SetState(recordingState, "idle")
  /\ duration' = SetState(duration, 0)
  /\ timerRef' = TimerEffect(recordingState')
  /\ chunksRef' = chunksRef

\* the body of discardRecording as closed over the given audioUrl
Discard(url) ==
  /\ liveUrls' = liveUrls \ {url}
  /\ audioBlob' = SetState(audioBlob, NoBlob)
  /\ audioUrl' = SetState(audioUrl, 0)
  /\ recordingState' = SetState(recordingState, "idle")
  /\ duration' = SetState(duration, 0)
  /\ timerRef' = TimerEffect(recordingState')
  /\ chunksRef' = <<>>

discardRecording ==
  /\ Discard(audioUrl)
  /\ toasts' = <<"info_discarded">>
  /\ UNCHANGED <<mounted, isSupported, isUploading, mediaRecorderRef,
                 streamRef, device, nextUrl, uploadSt>>

\* ---- recorder events and the timer -------------------------------------
\* ondataavailable registered twice: the chunk is pushed twice
ondataavailable_Twice(chunks, k, n) ==
  IF n > 0 THEN Append(Append(chunks, Chunk(k, n)), Chunk(k, n)) ELSE chunks

\* mediaRecorder.ondataavailable with a chunk of size n from recorder k:
\* the chunk buffer afterwards
ondataavailable(chunks, k, n) ==
  IF n > 0 THEN Append(chunks, Chunk(k, n)) ELSE chunks

\* the task queued when recorder k was inactivated: it fires dataavailable
\* (with the data gathered, of size n) and then stop at the recorder, so
\* ondataavailable and onstop run back to back
StopTask(k, n) ==
  /\ ev[k]
  /\ chunksRef' = ondataavailable(chunksRef, k, n)
  \* onstop
  /\ audioBlob' = SetState(audioBlob, Blob(chunksRef'))
  /\ nextUrl' = nextUrl + 1
  /\ liveUrls' = liveUrls \cup {nextUrl + 1}
  /\ audioUrl' = SetState(audioUrl, nextUrl + 1)
  /\ acq' = StopTracksAcq(acq, streamRef)
  /\ rec' = StopTracksRec(rec, streamRef)
  /\ ev' = [StopTracksEv(rec, ev, streamRef) EXCEPT ![k] = FALSE]
  /\ toasts' = <<>>
  /\ UNCHANGED <<mounted, isSupported, recordingState, duration, isUploading,
                 mediaRecorderRef, streamRef, timerRef, uploadSt>>

\* one firing of the interval callback setDuration(d => d + 1)
Tick ==
  /\ timerRef
  /\ duration < MaxDuration
  /\ duration' = SetState(duration, duration + 1)
  /\ toasts' = <<>>
  /\ UNCHANGED <<mounted, isSupported, recordingState, audioBlob, audioUrl,
                 isUploading, refs, timerRef, device, urlState, uploadSt>>

\* ---- upload -------------------------------------------------------------
\* uploadRecording up to its await: the request is sent
uploadRecording ==
  IF audioBlob.defined /\ ~upload.active
  THEN /\ isUploading' = SetState(isUploading, TRUE)
       /\ upload' = [active |-> TRUE, url |-> audioUrl, parts |-> audioBlob.parts]
       /\ toasts' = <<>>
       /\ UNCHANGED <<mounted, isSupported, recordingState, duration, audioBlob,
                      audioUrl, refs, timerRef, device, urlState, uploaded>>
  ELSE /\ toasts' = <<>>
       /\ UNCHANGED <<mounted, isSupported, reactState, refs, timerRef,
                      device, urlState, uploadSt>>

\* api.post resolves: the rest of the try block and the finally block run;
\* discardRecording is the closure of the render in which Upload was clicked
UploadSucceed ==
  /\ upload.active
  /\ Discard(upload.url)
  /\ toasts' = <<"success_uploaded", "info_discarded">>
  /\ uploaded' = uploaded + 1
  /\ isUploading' = SetState(isUploading, FALSE)
  /\ upload' = NoUpload
  /\ UNCHANGED <<mounted, isSupported, mediaRecorderRef, streamRef, device,
                 nextUrl>>

\* api.post rejects: the catch block and the finally block run
UploadFail ==
  /\ upload.active
  /\ toasts' = <<"error_upload">>
  /\ isUploading' = SetState(isUploading, FALSE)
  /\ upload' = NoUpload
  /\ UNCHANGED <<mounted, isSupported, recordingState, duration, audioBlob,
                 audioUrl, refs, timerRef, device, urlState, uploaded>>

\* api.post rejects with a 401 response: the response interceptor of the
\* axios instance removes the token and assigns window.location.href; the
\* catch and finally blocks run, then the document is unloaded: the component
\* is gone with its state, the browser ends every stream and recorder of the
\* document, cancels what it was waiting for and frees its object URLs
Unauthorized ==
  /\ upload.active
  /\ toasts' = <<"error_upload">>
  /\ isUploading' = SetState(isUploading, FALSE)
  /\ upload' = NoUpload
  /\ mounted' = FALSE
  /\ timerRef' = FALSE
  /\ acq' = [k \in Ids |-> CASE acq[k] = "open" -> "stopped"
                           [] acq[k] = "pending" -> "gone"
                           [] OTHER -> acq[k]]
  /\ rec' = [k \in Ids |-> IF rec[k] \in {"recording", "paused"}
                           THEN "inactive" ELSE rec[k]]
  /\ ev' = [k \in Ids |-> FALSE]
  /\ liveUrls' = {}
  /\ UNCHANGED <<isSupported, recordingState, duration, audioBlob, audioUrl,
                 refs, nextUrl, uploaded>>

\* ---- unmount ------------------------------------------------------------
\* the cleanups of both effects; the mount effect's cleanup closes over the
\* audioUrl of the first render (the empty string), so it revokes nothing
Unmount ==
  /\ mounted
  /\ mounted' = FALSE
  /\ timerRef' = FALSE
  /\ acq' = StopTracksAcq(acq, streamRef)
  /\ rec' = StopTracksRec(rec, streamRef)
  /\ ev' = StopTracksEv(rec, ev, streamRef)
  /\ toasts' = <<>>
  /\ UNCHANGED <<isSupported, reactState, refs, urlState, uploadSt>>

\* ---- the rendered controls ---------------------------------------------
Rendered == mounted /\ isSupported

StartShown  == Rendered /\ recordingState = "idle"
PauseShown  == Rendered /\ recordingState = "recording"
ResumeShown == Rendered /\ recordingState = "paused"
StopShown   == Rendered /\ recordingState \in {"recording", "paused"}
PreviewShown == Rendered /\ recordingState = "stopped" /\ audioUrl # 0

ClickStart  == StartShown /\ NextId <= MaxStarts /\ startRecording /\ UNCHANGED aux
ClickPause  == PauseShown /\ pauseRecording /\ UNCHANGED aux
ClickResume == ResumeShown /\ resumeRecording /\ UNCHANGED aux
ClickStop   == StopShown /\ stopRecording /\ UNCHANGED aux
\* the session reset by a discardRecording call is the one of the recorder
\* the component references
Discarding ==
  /\ discarded' = discarded \cup (IF mounted THEN {mediaRecorderRef} \ {0} ELSE {})
  /\ UNCHANGED <<timeVars, called, fmtVars, otherVars, viewerVars>>

ClickDiscard == PreviewShown /\ ~isUploading /\ discardRecording /\ Discarding
ClickUpload  == PreviewShown /\ ~isUploading /\ uploadRecording /\ UNCHANGED aux

Outcomes == {"ok", "ctor_throws", "start_throws"}
ErrorNames == {"NotAllowedError", "NotFoundError"}

Resolve == UNCHANGED aux /\ \E k \in Ids, o \in Outcomes : AcquireResolve(k, o)
Reject == UNCHANGED aux /\ \E k \in Ids, e \in ErrorNames : AcquireReject(k, e)
RecorderStopped == UNCHANGED aux /\ \E k \in Ids, n \in 0..MaxChunkSize : StopTask(k, n)
UploadSucceeded == UploadSucceed /\ Discarding
UploadFailed == UploadFail /\ UNCHANGED aux
UploadUnauthorized == Unauthorized /\ UNCHANGED aux
TimerTick == Tick /\ UNCHANGED aux
Unmounted == Unmount /\ UNCHANGED aux

Next ==
  \/ ClickStart
  \/ Resolve
  \/ Reject
  \/ ClickPause
  \/ ClickResume
  \/ ClickStop
  \/ ClickDiscard
  \/ ClickUpload
  \/ UploadSucceeded
  \/ UploadFailed
  \/ UploadUnauthorized
  \/ RecorderStopped
  \/ TimerTick
  \/ Unmounted

Spec == Init /\ [][Next]_vars

\* ---- the recorder with the passage of time ---------------------------
\* One session (start, pause/resume pairs, stop) with time observed in
\* quanta: the interval created by the timer effect fires QuantaPerSecond
\* quanta after its creation and then every QuantaPerSecond quanta, and a
\* callback that is due runs before any later click.
TickDue == timerRef /\ sinceTick = QuantaPerSecond

TimedStart ==
  /\ StartShown /\ NextId = 1
  /\ startRecording
  /\ UNCHANGED aux

TimedResolve ==
  /\ AcquireResolve(1, "ok")
  /\ recorded' = 0 /\ sinceTick' = 0 /\ pauses' = 0
  /\ UNCHANGED <<called, discarded, fmtVars, otherVars, viewerVars>>

\* the cleanup of the timer effect clears the interval
TimedPause ==
  /\ PauseShown /\ pauses < MaxPauses /\ ~TickDue
  /\ pauseRecording
  /\ pauses' = pauses + 1
  /\ UNCHANGED <<recorded, sinceTick, called, discarded, fmtVars, otherVars, viewerVars>>

\* the timer effect creates a new interval
TimedResume ==
  /\ ResumeShown
  /\ resumeRecording
  /\ sinceTick' = 0
  /\ UNCHANGED <<recorded, pauses, called, discarded, fmtVars, otherVars, viewerVars>>

TimedStop ==
  /\ StopShown /\ ~TickDue
  /\ stopRecording
  /\ UNCHANGED aux

\* one quantum passes while the state is 'recording'; a due interval
\* callback runs before more time passes
Advance ==
  /\ recordingState = "recording" /\ timerRef
  /\ ~TickDue
  /\ recorded' = recorded + 1
  /\ sinceTick' = sinceTick + 1
  /\ UNCHANGED <<recorderVars, pauses, called, discarded, fmtVars, otherVars, viewerVars>>

TimedTick ==
  /\ TickDue
  /\ Tick
  /\ sinceTick' = 0
  /\ UNCHANGED <<recorded, pauses, called, discarded, fmtVars, otherVars, viewerVars>>

NextTime ==
  \/ TimedStart
  \/ TimedResolve
  \/ TimedPause
  \/ TimedResume
  \/ TimedStop
  \/ Advance
  \/ TimedTick

SpecTime == Init /\ [][NextTime]_vars

\* ---- the handlers called in any state ----------------------------------
\* The handlers are functions of the mounted component: here each may be
\* called whatever the state is, not only where its button is rendered.
rest == <<timeVars, discarded, fmtVars, otherVars, viewerVars>>

CallStart   ==
  /\ mounted /\ NextId <= MaxStarts
  /\ startRecording /\ called' = "start" /\ UNCHANGED rest
CallPause   == mounted /\ pauseRecording /\ called' = "pause" /\ UNCHANGED rest
CallResume  == mounted /\ resumeRecording /\ called' = "resume" /\ UNCHANGED rest
CallStop    == mounted /\ stopRecording /\ called' = "stop" /\ UNCHANGED rest
CallDiscard ==
  /\ mounted /\ discardRecording /\ called' = "discard"
  /\ discarded' = discarded \cup ({mediaRecorderRef} \ {0})
  /\ UNCHANGED <<timeVars, fmtVars, otherVars, viewerVars>>

\* the browser's tasks
TaskResolve ==
  /\ \E k \in Ids, o \in Outcomes : AcquireResolve(k, o)
  /\ called' = "none" /\ UNCHANGED rest
TaskReject ==
  /\ \E k \in Ids, e \in ErrorNames : AcquireReject(k, e)
  /\ called' = "none" /\ UNCHANGED rest
TaskStopped ==
  /\ \E k \in Ids, n \in 0..MaxChunkSize : StopTask(k, n)
  /\ called' = "none" /\ UNCHANGED rest
TaskTick == Tick /\ called' = "none" /\ UNCHANGED rest

NextAny ==
  \/ CallStart
  \/ CallPause
  \/ CallResume
  \/ CallStop
  \/ CallDiscard
  \/ TaskResolve
  \/ TaskReject
  \/ TaskStopped
  \/ TaskTick

SpecAny == Init /\ [][NextAny]_vars

\* ---- cycles of record, stop and discard ---------------------------------
CycleStart == StartShown /\ startRecording /\ UNCHANGED aux

NextCycle ==
  \/ CycleStart
  \/ Resolve
  \/ ClickStop
  \/ RecorderStopped
  \/ ClickDiscard

SpecCycle == Init /\ [][NextCycle]_vars

\* ---- formatDuration ------------------------------------------------------
\* strings are sequences of one-character strings
DigitChars == <<"0", "1", "2", "3", "4", "5", "6", "7", "8", "9">>

\* Number.prototype.toString() of a non-negative integer
RECURSIVE toString(_)
toString(n) ==
  IF n < 10 THEN <<DigitChars[n + 1]>>
  ELSE toString(n \div 10) \o <<DigitChars[(n % 10) + 1]>>

\* String.prototype.padStart(width, pad) with a one-character pad
RECURSIVE padStart(_, _, _)
padStart(str, width, pad) ==
  IF Len(str) >= width THEN str ELSE padStart(<<pad>> \o str, width, pad)

\* formatDuration with the minutes taken modulo 60
formatDuration_Wrapped(secondsArg) ==
  LET mins == (secondsArg \div 60) % 60
      secs == secondsArg % 60
  IN  padStart(toString(mins), 2, "0") \o <<":">> \o padStart(toString(secs), 2, "0")

formatDuration(secondsArg) ==
  LET mins == secondsArg \div 60
      secs == secondsArg % 60
  IN  padStart(toString(mins), 2, "0") \o <<":">> \o padStart(toString(secs), 2, "0")

InitFmt ==
  /\ RecorderInit /\ TimeIdle /\ OtherIdle /\ ViewerIdle
  /\ seconds \in 0..MaxSeconds
  /\ shown = <<>>

Format ==
  /\ shown' = formatDuration(seconds)
  /\ UNCHANGED <<recorderVars, timeVars, called, discarded, seconds, otherVars, viewerVars>>

NextFmt == Format

SpecFmt == InitFmt /\ [][NextFmt]_vars

\* ---- the export emitters, line by line ----------------------------------
\* a line is a sequence of one-character strings without "\n"
LineChars == {"#", " ", "*", "a"}

RECURSIVE LinesUpTo(_)
LinesUpTo(n) ==
  IF n = 0 THEN {<<>>}
  ELSE LET shorter == LinesUpTo(n - 1)
       IN  shorter \cup {Append(str, c) : str \in shorter, c \in LineChars}

\* String.prototype.startsWith / endsWith / slice / trim
startsWith(str, prefix) ==
  Len(str) >= Len(prefix) /\ SubSeq(str, 1, Len(prefix)) = prefix
endsWith(str, suffix) ==
  Len(str) >= Len(suffix)
    /\ SubSeq(str, Len(str) - Len(suffix) + 1, Len(str)) = suffix
\* str.slice(from, -back)
slice(str, from, back) ==
  IF from >= Len(str) - back THEN <<>>
  ELSE SubSeq(str, from + 1, Len(str) - back)
\* line.trim() is a non-empty string
trimmed(str) == \E i \in DOMAIN str : str[i] # " "

\* the least position from `from` on where str holds the closing marker
\* (a sequence of "*"), 0 if there is none: what a lazy quantifier stops at
Closing(str, from, marker) ==
  LET at == {j \in from..(Len(str) - Len(marker) + 1) :
               SubSeq(str, j, j + Len(marker) - 1) = marker}
  IN  IF at = {} THEN 0 ELSE CHOOSE j \in at : \A k \in at : j <= k

\* str.replace(/<marker>(.+?)<marker>/g, '$1'), scanning from position p
RECURSIVE replaceMarked(_, _, _)
replaceMarked(str, marker, p) ==
  IF p > Len(str) THEN <<>>
  ELSE LET n == Len(marker)
           close == IF startsWith(SubSeq(str, p, Len(str)), marker)
                    THEN Closing(str, p + n + 1, marker) ELSE 0
       IN  IF close # 0
           THEN SubSeq(str, p + n, close - 1)
                  \o replaceMarked(str, marker, close + n)
           ELSE <<str[p]>> \o replaceMarked(str, marker, p + 1)

\* line.replace(/\*\*(.+?)\*\*/g, '$1').replace(/\*(.+?)\*/g, '$1')
cleanLine(str) ==
  replaceMarked(replaceMarked(str, <<"*", "*">>, 1), <<"*">>, 1)

\* the last position of a match of /(\*\*.*?\*\*|\*.*?\*)/ that begins at
\* position q, 0 if there is none
MatchEnd(str, q) ==
  LET bold == IF startsWith(SubSeq(str, q, Len(str)), <<"*", "*">>)
              THEN Closing(str, q + 2, <<"*", "*">>) ELSE 0
      italic == IF str[q] = "*" THEN Closing(str, q + 1, <<"*">>) ELSE 0
  IN  IF bold # 0 THEN bold + 1 ELSE italic

\* line.split(/(\*\*.*?\*\*|\*.*?\*)/): p is where the current piece
\* begins, q the position tried next
RECURSIVE split(_, _, _)
split(str, p, q) ==
  IF q > Len(str) THEN <<SubSeq(str, p, Len(str))>>
  ELSE LET e == MatchEnd(str, q)
       IN  IF e = 0 THEN split(str, p, q + 1)
           ELSE <<SubSeq(str, p, q - 1), SubSeq(str, q, e)>>
                  \o split(str, e + 1, e + 1)

\* the TextRun pushed for a part when the markers are left in its text
TextRun_KeepsMarkers(part) ==
  IF startsWith(part, <<"*", "*">>) /\ endsWith(part, <<"*", "*">>)
  THEN <<[text |-> part, bold |-> TRUE, italics |-> FALSE]>>
  ELSE IF startsWith(part, <<"*">>) /\ endsWith(part, <<"*">>)
       THEN <<[text |-> part, bold |-> FALSE, italics |-> TRUE]>>
       ELSE IF part # <<>>
            THEN <<[text |-> part, bold |-> FALSE, italics |-> FALSE]>>
            ELSE <<>>

\* the TextRun pushed for a part, <<>> for a part that pushes none
TextRun(part) ==
  IF startsWith(part, <<"*", "*">>) /\ endsWith(part, <<"*", "*">>)
  THEN <<[text |-> slice(part, 2, 2), bold |-> TRUE, italics |-> FALSE]>>
  ELSE IF startsWith(part, <<"*">>) /\ endsWith(part, <<"*">>)
       THEN <<[text |-> slice(part, 1, 1), bold |-> FALSE, italics |-> TRUE]>>
       ELSE IF part # <<>>
            THEN <<[text |-> part, bold |-> FALSE, italics |-> FALSE]>>
            ELSE <<>>

RECURSIVE runs(_)
runs(parts) ==
  IF parts = <<>> THEN <<>> ELSE TextRun(Head(parts)) \o runs(Tail(parts))

\* one pass of the pdf body loop: the font set, the text given to
\* splitTextToSize and the advance per wrapped sub-line
pdfBodyLine(str) ==
  IF startsWith(str, <<"#", "#", "#", " ">>)
  THEN [draws |-> TRUE, fontSize |-> 13, fontStyle |-> "bold",
        text |-> SubSeq(str, 5, Len(str)), step |-> 6]
  ELSE IF startsWith(str, <<"#", "#", "#", "#", " ">>)
       THEN [draws |-> TRUE, fontSize |-> 12, fontStyle |-> "bold",
             text |-> SubSeq(str, 6, Len(str)), step |-> 5]
       ELSE IF trimmed(str)
            THEN [draws |-> TRUE, fontSize |-> 11, fontStyle |-> "normal",
                  text |-> cleanLine(str), step |-> 5]
            ELSE [draws |-> FALSE, fontSize |-> 11, fontStyle |-> "normal",
                  text |-> <<>>, step |-> 5]

\* one pass of the docx body loop: the Paragraph pushed
docxBodyLine(str) ==
  IF startsWith(str, <<"#", "#", "#", " ">>)
  THEN [heading |-> "HEADING_2", text |-> SubSeq(str, 5, Len(str)),
        children |-> <<>>, hasRuns |-> FALSE]
  ELSE IF startsWith(str, <<"#", "#", "#", "#", " ">>)
       THEN [heading |-> "HEADING_3", text |-> SubSeq(str, 6, Len(str)),
             children |-> <<>>, hasRuns |-> FALSE]
       ELSE IF trimmed(str)
            THEN [heading |-> "none", text |-> <<>>,
                  children |-> runs(split(str, 1, 1)), hasRuns |-> TRUE]
            ELSE [heading |-> "none", text |-> <<>>,
                  children |-> <<>>, hasRuns |-> FALSE]

InitLine ==
  /\ RecorderInit /\ isSupported /\ TimeIdle /\ FmtIdle /\ ViewerIdle /\ PdfIdle
  /\ AuthIdle /\ SaveIdle
  /\ line \in LinesUpTo(MaxLineLen)
  /\ pdfLine = NoLine /\ docxLine = NoLine

lineFrame == <<recorderVars, timeVars, called, discarded, fmtVars, viewerVars,
               pdfVars, authVars, saveVars>>

EmitPdfLine ==
  /\ pdfLine' = pdfBodyLine(line)
  /\ UNCHANGED <<line, docxLine, lineFrame>>

EmitDocxLine ==
  /\ docxLine' = docxBodyLine(line)
  /\ UNCHANGED <<line, pdfLine, lineFrame>>

NextLine == EmitPdfLine \/ EmitDocxLine

SpecLine == InitLine /\ [][NextLine]_vars

\* ---- LetterViewer: editing and export -----------------------------------
\* strings that are looked at character by character are sequences of
\* one-character strings; a string built by a template literal is the
\* sequence of its pieces
LetterTypes == {"referral", "consultation", "discharge_summary",
                "medical_report", "prescription", "sick_note", "other"}

LETTER_TYPE_LABELS ==
  [referral |-> "Referral Letter",
   consultation |-> "Consultation Note",
   discharge_summary |-> "Discharge Summary",
   medical_report |-> "Medical Report",
   prescription |-> "Prescription",
   sick_note |-> "Sick Note / Medical Certificate",
   other |-> "Other Medical Letter"]

\* values that `||` and `if` take for absent
Falsy(v) == v \in {"undefined", ""}

PatientNames == {"undefined", "", "Jane Doe"}
PatientAges == {"undefined", "45"}
PatientGenders == {"undefined", "Female"}
Dates == {"2025-01-31", "2025-02-01"}

HelloWorld == <<"H", "e", "l", "l", "o", " ", "*", "*",
                "w", "o", "r", "l", "d", "*", "*">>
TypedChars == {"o", "*", "é"}

RECURSIVE StringsUpTo(_)
StringsUpTo(n) ==
  IF n = 0 THEN {<<>>}
  ELSE LET shorter == StringsUpTo(n - 1)
       IN  shorter \cup {Append(str, c) : str \in shorter, c \in TypedChars}

\* "### Heading\nPlain line with *italic* and **bold**.\n\nSecond paragraph."
SampleContent ==
  <<"#", "#", "#", " ", "H", "e", "a", "d", "i", "n", "g", "\n",
    "P", "l", "a", "i", "n", " ", "l", "i", "n", "e", " ", "w",
    "i", "t", "h", " ", "*", "i", "t", "a", "l", "i", "c", "*",
    " ", "a", "n", "d", " ", "*", "*", "b", "o", "l", "d", "*",
    "*", ".", "\n", "\n", "S", "e", "c", "o", "n", "d", " ", "p",
    "a", "r", "a", "g", "r", "a", "p", "h", ".">>

Contents == StringsUpTo(MaxContentLen) \cup {HelloWorld, SampleContent}

LetterOf(type, name, content) ==
  [letter_type |-> type, patient_name |-> name, patient_age |-> "undefined",
   patient_gender |-> "undefined", content |-> content]

PatientOf(name, age, gender) ==
  [LetterOf("referral", name, HelloWorld)
     EXCEPT !.patient_age = age, !.patient_gender = gender]

\* the letters given to the viewer: every type and name, every content, and
\* every patient
Letters ==
  {LetterOf(type, name, HelloWorld) : type \in LetterTypes, name \in PatientNames}
    \cup {LetterOf("discharge_summary", "Jane Doe", content) : content \in Contents}
    \cup {PatientOf(name, age, gender) :
            name \in PatientNames, age \in PatientAges, gender \in PatientGenders}

\* the code point of a character (String.prototype.codePointAt)
codePointAt(c) ==
  CASE c = "\n" -> 10
    [] c = " " -> 32
    [] c = "#" -> 35
    [] c = "*" -> 42
    [] c = "." -> 46
    [] c = "H" -> 72
    [] c = "P" -> 80
    [] c = "S" -> 83
    [] c = "a" -> 97
    [] c = "b" -> 98
    [] c = "c" -> 99
    [] c = "d" -> 100
    [] c = "e" -> 101
    [] c = "g" -> 103
    [] c = "h" -> 104
    [] c = "i" -> 105
    [] c = "l" -> 108
    [] c = "n" -> 110
    [] c = "o" -> 111
    [] c = "p" -> 112
    [] c = "r" -> 114
    [] c = "t" -> 116
    [] c = "w" -> 119
    [] c = "é" -> 233

\* the UTF-8 bytes of a code point of the Basic Multilingual Plane
Utf8(cp) ==
  IF cp < 128 THEN <<cp>>
  ELSE IF cp < 2048 THEN <<192 + (cp \div 64), 128 + (cp % 64)>>
  ELSE <<224 + (cp \div 4096), 128 + ((cp \div 64) % 64), 128 + (cp % 64)>>

\* the UTF-8 encoding of a string
RECURSIVE Utf8Encode(_)
Utf8Encode(str) ==
  IF str = <<>> THEN <<>>
  ELSE Utf8(codePointAt(Head(str))) \o Utf8Encode(Tail(str))

\* the text blob built after removing the emphasis markers
TextBlob_Stripped(content) ==
  Utf8Encode(SelectSeq(content, LAMBDA c : c # "*"))

\* the bytes of new Blob([content], { type: 'text/plain' })
TextBlob(content) == Utf8Encode(content)

\* the base of the file name, without the patient name's fallback
filename_NoFallback(l, date) ==
  <<LETTER_TYPE_LABELS[l.letter_type], "_", l.patient_name, "_", date>>

\* the base of the file name
filename(l, date) ==
  <<LETTER_TYPE_LABELS[l.letter_type], "_",
    IF Falsy(l.patient_name) THEN "Letter" ELSE l.patient_name, "_", date>>

\* format.toUpperCase()
toUpperCase(format) ==
  CASE format = "txt" -> "TXT" [] format = "pdf" -> "PDF" [] format = "docx" -> "DOCX"

\* content.split('\n'), the line being collected in `cur`
RECURSIVE splitLines(_, _)
splitLines(content, cur) ==
  IF content = <<>> THEN <<cur>>
  ELSE IF Head(content) = "\n"
       THEN <<cur>> \o splitLines(Tail(content), <<>>)
       ELSE splitLines(Tail(content), Append(cur, Head(content)))

\* info.join(', ')
RECURSIVE join(_, _)
join(info, sep) ==
  IF info = <<>> THEN <<>>
  ELSE IF Len(info) = 1 THEN info[1]
       ELSE info[1] \o <<sep>> \o join(Tail(info), sep)

\* the patient-info condition of both emitters
HasPatientInfo(l) ==
  ~Falsy(l.patient_name) \/ ~Falsy(l.patient_age) \/ ~Falsy(l.patient_gender)

\* the texts the pdf branch draws above the body, with their fonts
pdfHeader(l) ==
  <<[fontSize |-> 16, fontStyle |-> "bold",
     text |-> <<LETTER_TYPE_LABELS[l.letter_type]>>]>>
    \o (IF HasPatientInfo(l) /\ ~Falsy(l.patient_name)
        THEN <<[fontSize |-> 10, fontStyle |-> "normal",
                text |-> <<"Patient: ", l.patient_name>>]>>
        ELSE <<>>)
    \o (IF HasPatientInfo(l) /\ (~Falsy(l.patient_age) \/ ~Falsy(l.patient_gender))
        THEN LET info ==
                   (IF ~Falsy(l.patient_age)
                    THEN <<<<"Age: ", l.patient_age>>>> ELSE <<>>)
                     \o (IF ~Falsy(l.patient_gender)
                         THEN <<<<"Gender: ", l.patient_gender>>>> ELSE <<>>)
             IN  <<[fontSize |-> 10, fontStyle |-> "normal",
                    text |-> join(info, ", ")]>>
        ELSE <<>>)

\* new Paragraph({ text })
TextParagraph(text, heading) ==
  [heading |-> heading, text |-> text, children |-> <<>>, hasRuns |-> FALSE]

\* the paragraphs the docx branch pushes before the body
docxHeader(l) ==
  <<TextParagraph(<<LETTER_TYPE_LABELS[l.letter_type]>>, "HEADING_1")>>
    \o (IF HasPatientInfo(l)
        THEN LET patientInfo ==
                   (IF ~Falsy(l.patient_name)
                    THEN <<<<"Patient: ", l.patient_name>>>> ELSE <<>>)
                     \o (IF ~Falsy(l.patient_age)
                         THEN <<<<"Age: ", l.patient_age>>>> ELSE <<>>)
                     \o (IF ~Falsy(l.patient_gender)
                         THEN <<<<"Gender: ", l.patient_gender>>>> ELSE <<>>)
             IN  [i \in DOMAIN patientInfo |-> TextParagraph(patientInfo[i], "none")]
                   \o <<TextParagraph(<<>>, "none")>>
        ELSE <<>>)

\* the body loops over editedContent.split('\n')
pdfBody(content) ==
  LET lines == splitLines(content, <<>>)
  IN  [i \in DOMAIN lines |-> pdfBodyLine(lines[i])]

docxBody(content) ==
  LET lines == splitLines(content, <<>>)
  IN  [i \in DOMAIN lines |-> docxBodyLine(lines[i])]

\* the file an export branch hands to the file-save: the text blob for txt;
\* for pdf the texts drawn and for docx the paragraphs, header then body
ExportFile(format) ==
  [name |-> filename(letter, today) \o <<".", format>>,
   payload |-> CASE format = "txt" -> TextBlob(editedContent)
                 [] format = "pdf" -> <<pdfHeader(letter), pdfBody(editedContent)>>
                 [] format = "docx" -> <<docxHeader(letter), docxBody(editedContent)>>]

viewerFrame == <<mounted, isSupported, reactState, refs, timerRef, device,
                 urlState, uploadSt, timeVars, called, discarded, fmtVars, otherVars>>

\* the file-save's outcome for the branch: it is handed the file, or a
\* step of the branch throws before that
ExportOutcomes == {"ok", "throws"}

\* handleExport whose catch block also opens the editor
handleExport_OpensEditor(format, outcome) ==
  /\ UNCHANGED <<letter, editedContent, today>>
  /\ IF outcome = "throws"
     THEN /\ toasts' = <<"Failed to export as ", toUpperCase(format)>>
          /\ isEditing' = TRUE
          /\ UNCHANGED <<saved, packing>>
     ELSE /\ isEditing' = isEditing
          /\ IF format = "docx"
             THEN /\ packing' = Append(packing, ExportFile(format))
                  /\ toasts' = <<>>
                  /\ UNCHANGED saved
             ELSE /\ saved' = [saved EXCEPT ![format] = ExportFile(format)]
                  /\ toasts' = <<"Letter exported as ", toUpperCase(format)>>
                  /\ UNCHANGED packing

\* handleExport up to its return or, in the docx branch, up to
\* await Packer.toBlob(doc)
handleExport(format, outcome) ==
  /\ UNCHANGED <<letter, editedContent, isEditing, today>>
  /\ IF outcome = "throws"
     THEN /\ toasts' = <<"Failed to export as ", toUpperCase(format)>>
          /\ UNCHANGED <<saved, packing>>
     ELSE IF format = "docx"
          THEN /\ packing' = Append(packing, ExportFile(format))
               /\ toasts' = <<>>
               /\ UNCHANGED saved
          ELSE /\ saved' = [saved EXCEPT ![format] = ExportFile(format)]
               /\ toasts' = <<"Letter exported as ", toUpperCase(format)>>
               /\ UNCHANGED packing

\* the docx branch after await Packer.toBlob(doc): saveAs and the success
\* toast, or the catch block when toBlob rejected or saveAs threw
Packed(i, outcome) ==
  /\ i \in DOMAIN packing
  /\ packing' = SubSeq(packing, 1, i - 1) \o SubSeq(packing, i + 1, Len(packing))
  /\ IF outcome = "throws"
     THEN /\ toasts' = <<"Failed to export as ", toUpperCase("docx")>>
          /\ UNCHANGED saved
     ELSE /\ saved' = [saved EXCEPT !["docx"] = packing[i]]
          /\ toasts' = <<"Letter exported as ", toUpperCase("docx")>>
  /\ UNCHANGED <<letter, editedContent, isEditing, today>>

\* the Edit button
ClickEdit ==
  /\ ~isEditing
  /\ isEditing' = TRUE
  /\ toasts' = <<>>
  /\ UNCHANGED <<letter, editedContent, today, saved, packing, viewerFrame>>

\* the textarea's onChange: one character typed or erased
Type ==
  /\ isEditing
  /\ \/ /\ Len(editedContent) < MaxContentLen
        /\ \E c \in TypedChars : editedContent' = Append(editedContent, c)
     \/ /\ editedContent # <<>>
        /\ editedContent' = SubSeq(editedContent, 1, Len(editedContent) - 1)
  /\ toasts' = <<>>
  /\ UNCHANGED <<letter, isEditing, today, saved, packing, viewerFrame>>

\* the Cancel button
ClickCancel ==
  /\ isEditing /\ ~isSaving
  /\ isEditing' = FALSE
  /\ editedContent' = letter.content
  /\ toasts' = <<>>
  /\ UNCHANGED <<letter, today, saved, packing, viewerFrame>>

\* the TXT, PDF and DOCX buttons of the Export menu
ClickExport ==
  /\ ~isEditing
  /\ \E format \in Formats, outcome \in ExportOutcomes :
        /\ (format = "docx" /\ outcome = "ok") => Len(packing) < MaxPacking
        /\ handleExport(format, outcome)
  /\ UNCHANGED viewerFrame

PackerDone ==
  /\ \E i \in DOMAIN packing, outcome \in ExportOutcomes : Packed(i, outcome)
  /\ UNCHANGED viewerFrame

InitExport ==
  /\ RecorderInit /\ isSupported /\ TimeIdle /\ FmtIdle /\ OtherIdle
  /\ letter \in Letters
  /\ editedContent = letter.content
  /\ isEditing = FALSE
  /\ today \in Dates
  /\ saved = [f \in Formats |-> NoFile]
  /\ packing = <<>>

NextExport ==
  \/ ClickEdit
  \/ Type
  \/ ClickCancel
  \/ ClickExport
  \/ PackerDone

SpecExport == InitExport /\ [][NextExport]_vars

\* ---- LetterViewer: saving and copying ------------------------------------
saveFrame == <<mounted, isSupported, reactState, refs, timerRef, device,
               urlState, uploadSt, timeVars, called, discarded, fmtVars,
               lineVars, pdfVars, authVars>>

\* the files and texts handed out so far
Exported ==
  Cardinality({f \in Formats : saved[f] # NoFile}) + Len(packing)
    + (IF clipboard.written THEN 1 ELSE 0)

\* handleSave up to await api.patch
handleSave ==
  /\ isSaving' = TRUE
  /\ patch' = [active |-> TRUE, content |-> editedContent]
  /\ toasts' = <<>>
  /\ UNCHANGED <<letter, editedContent, isEditing, today, saved, packing,
                 isCopying, clipboard>>

\* api.patch resolves: the toast, setIsEditing(false), onLetterUpdated with
\* the updated letter, which the page passes back as the letter prop, and
\* the finally block
SaveSucceed ==
  /\ patch.active
  /\ toasts' = <<"Letter updated successfully">>
  /\ isEditing' = FALSE
  /\ letter' = [letter EXCEPT !.content = patch.content]
  /\ isSaving' = FALSE
  /\ patch' = NoPatch
  /\ UNCHANGED <<editedContent, today, saved, packing, isCopying, clipboard>>

\* api.patch rejects: the catch block and the finally block
SaveFail ==
  /\ patch.active
  /\ toasts' = <<"Failed to update letter">>
  /\ isSaving' = FALSE
  /\ patch' = NoPatch
  /\ UNCHANGED <<letter, editedContent, isEditing, today, saved, packing,
                 isCopying, clipboard>>

\* handleCopy: writeText resolves or rejects
handleCopy(outcome) ==
  /\ isCopying' = TRUE
  /\ IF outcome = "ok"
     THEN /\ clipboard' = [written |-> TRUE, text |-> editedContent]
          /\ toasts' = <<"Letter copied to clipboard">>
     ELSE /\ toasts' = <<"Failed to copy to clipboard">>
          /\ UNCHANGED clipboard
  /\ UNCHANGED <<letter, editedContent, isEditing, today, saved, packing,
                 isSaving, patch>>

\* the Save Changes button
ClickSave ==
  /\ isEditing /\ ~isSaving /\ editedContent # letter.content
  /\ handleSave
  /\ UNCHANGED saveFrame

SaveSucceeded == SaveSucceed /\ UNCHANGED saveFrame
SaveFailed == SaveFail /\ UNCHANGED saveFrame

\* the Copy button
ClickCopy ==
  /\ ~isEditing /\ ~isCopying
  /\ Exported < MaxExports
  /\ \E outcome \in ExportOutcomes : handleCopy(outcome)
  /\ UNCHANGED saveFrame

\* setTimeout(() => setIsCopying(false), 1000)
CopyTimeout ==
  /\ isCopying
  /\ isCopying' = FALSE
  /\ toasts' = <<>>
  /\ UNCHANGED <<letter, editedContent, isEditing, today, saved, packing,
                 isSaving, patch, clipboard, saveFrame>>

\* the export buttons, for a bounded number of exports
ExportSome == Exported < MaxExports /\ ClickExport

InitEdit ==
  /\ RecorderInit /\ isSupported /\ TimeIdle /\ FmtIdle /\ OtherIdle
  /\ letter = LetterOf("referral", "Jane Doe", <<"o">>)
  /\ editedContent = letter.content
  /\ isEditing = FALSE
  /\ today = "2025-01-31"
  /\ saved = [f \in Formats |-> NoFile]
  /\ packing = <<>>

NextEdit ==
  \/ ClickEdit
  \/ Type
  \/ ClickCancel
  \/ ClickSave
  \/ SaveSucceeded
  \/ SaveFailed
  \/ ExportSome
  \/ PackerDone
  \/ ClickCopy
  \/ CopyTimeout

SpecEdit == InitEdit /\ [][NextEdit]_vars

\* ---- the pdf emitter's pages -------------------------------------------
\* doc.internal.pageSize.getHeight() of an a4 page, in mm
pageHeight == 297
margin == 20

\* the kinds of line the body loop tells apart
KindsOfLine == {<<"#", "#", "#", " ", "a">>, <<"#", "#", "#", "#", " ", "a">>,
                <<"a">>, <<>>}

\* the lengths splitTextToSize returns
WrapCounts == 1..MaxWrap \cup {LongWrap}

pdfFrame == <<recorderVars, timeVars, called, discarded, fmtVars, lineVars,
              viewerVars, authVars, saveVars>>

\* new jsPDF and the header: the title, the patient lines, the gap
PdfHeader ==
  /\ pdfStage = "new"
  /\ LET nameLine == IF HasPatientInfo(letter) /\ ~Falsy(letter.patient_name)
                     THEN 1 ELSE 0
         infoLine == IF HasPatientInfo(letter)
                          /\ (~Falsy(letter.patient_age) \/ ~Falsy(letter.patient_gender))
                     THEN 1 ELSE 0
     IN  /\ textTop' = margin
         /\ textBottom' = IF nameLine + infoLine = 0 THEN margin
                          ELSE margin + 10 + 6 * (nameLine + infoLine - 1)
         /\ yPosition' = margin + 10 + 6 * nameLine + 6 * infoLine
                            + (IF HasPatientInfo(letter) THEN 4 ELSE 0)
  /\ pages' = 1
  /\ pdfStage' = "body"
  /\ UNCHANGED pdfFrame

\* one pass of the body loop over a line that splitTextToSize wraps into
\* `wraps` sub-lines
PdfLine(str, wraps) ==
  LET out == pdfBodyLine(str)
      break == yPosition > pageHeight - margin
      top == IF break THEN margin ELSE yPosition
  IN  /\ pages' = IF break THEN pages + 1 ELSE pages
      /\ IF out.draws
         THEN /\ textTop' = top
              /\ textBottom' = top + (wraps - 1) * out.step
              /\ yPosition' = top + wraps * out.step
         ELSE /\ yPosition' = top + out.step
              /\ textTop' = 0 /\ textBottom' = 0

PdfNextLine ==
  /\ pdfStage = "body"
  /\ \E str \in KindsOfLine, wraps \in WrapCounts : PdfLine(str, wraps)
  /\ pages' <= MaxPages
  /\ UNCHANGED <<pdfStage, pdfFrame>>

\* the loop is over: doc.save
PdfSave ==
  /\ pdfStage = "body"
  /\ pdfStage' = "saved"
  /\ UNCHANGED <<yPosition, pages, textTop, textBottom, pdfFrame>>

InitPdf ==
  /\ RecorderInit /\ isSupported /\ TimeIdle /\ FmtIdle /\ LineIdle /\ AuthIdle
  /\ SaveIdle
  /\ letter \in {PatientOf(name, age, "undefined") :
                   name \in {"undefined", "Jane Doe"}, age \in PatientAges}
  /\ editedContent = letter.content
  /\ isEditing = FALSE
  /\ today \in {"2025-01-31"}
  /\ saved = [f \in Formats |-> NoFile]
  /\ packing = <<>>
  /\ yPosition = 0 /\ pages = 0
  /\ textTop = 0 /\ textBottom = 0 /\ pdfStage = "new"

NextPdf == PdfHeader \/ PdfNextLine \/ PdfSave

SpecPdf == InitPdf /\ [][NextPdf]_vars

\* ---- the stored session ---------------------------------------------------
\* what the server answers to a request
Responses == {"ok", "401", "network", "500"}
\* the pages that need a session
ProtectedPaths == {"/dashboard", "/recording", "/letters"}

authFrame == <<recorderVars, timeVars, called, discarded, fmtVars, lineVars,
               pdfVars, viewerVars, saveVars>>

\* the toast of a catch block: err.response?.data?.detail || a default
ErrorToast(response) ==
  IF response = "network" THEN "error_default" ELSE "error_detail"

\* lib/auth.ts
isAuthenticated == localStorage.token # 0
removeToken == [token |-> 0, user |-> 0]

\* the response interceptor's 401 branch takes the session away
InterceptorClears(response) ==
  response = "401" /\ pathname \notin {"/auth/login", "/auth/signup"}

\* LoginForm onSubmit up to await api.post('/api/auth/login')
SubmitLogin ==
  /\ pathname = "/auth/login" /\ loginStep = "idle"
  /\ loginStep' = "login"
  /\ notice' = "none"
  /\ UNCHANGED <<localStorage, pathname, fetching, issued, authFrame>>

\* the login request is answered: setToken and the request for
\* /api/auth/me, or the catch and finally blocks
LoginResponds ==
  /\ loginStep = "login"
  /\ \E response \in Responses :
       IF response = "ok"
       THEN /\ issued < MaxLogins
            /\ issued' = issued + 1
            /\ localStorage' = [localStorage EXCEPT !.token = issued + 1]
            /\ loginStep' = "me"
            /\ notice' = "none"
       ELSE /\ loginStep' = "idle"
            /\ notice' = ErrorToast(response)
            /\ UNCHANGED <<localStorage, issued>>
  /\ UNCHANGED <<pathname, fetching, authFrame>>

\* the request for /api/auth/me is answered: setUser, the toast and
\* router.push('/dashboard'), or the catch and finally blocks
MeResponds ==
  /\ loginStep = "me"
  /\ \E response \in Responses :
       IF response = "ok"
       THEN /\ localStorage' = [localStorage EXCEPT !.user = localStorage.token]
            /\ notice' = "success"
            /\ pathname' = "/dashboard"
       ELSE /\ notice' = ErrorToast(response)
            /\ UNCHANGED <<localStorage, pathname>>
  /\ loginStep' = "idle"
  /\ UNCHANGED <<fetching, issued, authFrame>>

\* a protected page is opened: its effect redirects without a token and
\* fetches with one
VisitProtected ==
  /\ loginStep = "idle"
  /\ IF isAuthenticated
     THEN /\ \E path \in ProtectedPaths \ {pathname} : pathname' = path
          /\ fetching' = TRUE
     ELSE pathname' = "/auth/login" /\ UNCHANGED fetching
  /\ notice' = "none"
  /\ UNCHANGED <<localStorage, loginStep, issued, authFrame>>

\* the login page is opened from a protected page by a link
VisitLogin ==
  /\ pathname \in ProtectedPaths
  /\ pathname' = "/auth/login"
  /\ notice' = "none"
  /\ UNCHANGED <<localStorage, loginStep, fetching, issued, authFrame>>

\* the request of a protected page is answered, through the response
\* interceptor
FetchResponds ==
  /\ fetching
  /\ fetching' = FALSE
  /\ \E response \in Responses :
       /\ notice' = IF response = "ok" THEN "none" ELSE ErrorToast(response)
       /\ IF InterceptorClears(response)
          THEN localStorage' = removeToken /\ pathname' = "/auth/login"
          ELSE UNCHANGED <<localStorage, pathname>>
  /\ UNCHANGED <<loginStep, issued, authFrame>>

\* the Logout button of the header, rendered for a stored user: logout()
\* and the document of the login page
handleLogout ==
  /\ pathname \in ProtectedPaths /\ localStorage.user # 0
  /\ localStorage' = removeToken
  /\ pathname' = "/auth/login"
  /\ fetching' = FALSE
  /\ notice' = "none"
  /\ UNCHANGED <<loginStep, issued, authFrame>>

InitAuth ==
  /\ RecorderInit /\ isSupported /\ TimeIdle /\ FmtIdle /\ LineIdle /\ PdfIdle
  /\ ViewerIdle /\ AuthIdle /\ SaveIdle

NextAuth ==
  \/ SubmitLogin
  \/ LoginResponds
  \/ MeResponds
  \/ VisitProtected
  \/ VisitLogin
  \/ FetchResponds
  \/ handleLogout

SpecAuth == InitAuth /\ [][NextAuth]_vars

\* ---- type invariant -----------------------------------------------------
TypeOK ==
  /\ mounted \in BOOLEAN /\ isSupported \in BOOLEAN
  /\ recordingState \in RecordingState
  /\ duration \in 0..MaxDuration
  /\ audioBlob.defined \in BOOLEAN
  /\ audioUrl \in Ids \cup {0}
  /\ isUploading \in BOOLEAN
  /\ mediaRecorderRef \in Ids \cup {0}
  /\ streamRef \in Ids \cup {0}
  /\ timerRef \in BOOLEAN
  /\ \A k \in Ids : /\ acq[k] \in {"unused", "pending", "open", "stopped", "rejected", "gone"}
                    /\ rec[k] \in {"none", "recording", "paused", "inactive"}
                    /\ ev[k] \in BOOLEAN
  /\ liveUrls \subseteq Ids
  /\ nextUrl \in Ids \cup {0}
  /\ called \in {"none", "start", "pause", "resume", "stop", "discard"}
  /\ discarded \subseteq Ids

\* ---- claims -------------------------------------------------------------
PendingAcquisitions == {k \in Ids : acq[k] = "pending"}

\* C1: at every moment at most one microphone stream is open (acquired and
\* its tracks not yet stopped).
C1_AtMostOneOpenStream == Cardinality(OpenStreams) <= 1

\* C2: while a startRecording call is awaiting its acquisition no second
\* acquisition is begun, and the completion of a startRecording never
\* replaces a stream reference whose stream is still open.
C2_NoSecondAcquisition ==
  /\ [](Cardinality(PendingAcquisitions) <= 1)
  /\ [][streamRef' # streamRef => (streamRef = 0 \/ acq[streamRef] # "open")]_vars

\* C3: once the recorder's onstop callback has run and the blob is assembled
\* in state Stopped, and in Idle after a discard, no stream acquired by an
\* earlier startRecording is still open.
C3_ReleasedAfterStop ==
  (mounted /\ recordingState = "stopped" /\ audioBlob.defined)
     => OpenStreams = {}

\* C4: after component teardown no microphone stream remains open, also
\* when an acquisition that was pending at teardown completes afterwards.
C4_ReleasedAfterUnmount == ~mounted => OpenStreams = {}

\* C5: a startRecording that acquired its stream and then failed
\* (constructing or starting the MediaRecorder threw) releases that stream
\* and leaves the state unchanged.
C5_ReleasedOnErrorPath ==
  [][\A k \in Ids :
       (acq[k] = "pending" /\ acq'[k] # "pending" /\ toasts' # <<"success_started">>)
          => (acq'[k] # "open" /\ recordingState' = recordingState)]_vars

\* C6: a start attempt whose getUserMedia rejects leaves the recorder as it
\* was (state, elapsed counter, chunk buffer, blob, preview URL, refs, open
\* streams) and shows exactly one error toast; without capture capability
\* the recorder stays Idle and nothing is acquired.
C6_FailedStartChangesNothing ==
  /\ [](~isSupported => (recordingState = "idle" /\ streamRef = 0
                          /\ \A k \in Ids : acq[k] = "unused"))
  /\ [][(\E k \in Ids : acq[k] = "pending" /\ acq'[k] = "rejected")
          => /\ UNCHANGED <<recordingState, duration, chunksRef, audioBlob,
                            audioUrl, mediaRecorderRef, streamRef, timerRef,
                            liveUrls, rec>>
             /\ OpenStreams' = OpenStreams
             /\ toasts' \in {<<"error_denied">>, <<"error_failed">>}]_vars

C6_Witness ==
  /\ toasts = <<"error_denied">>
  /\ recordingState = "idle" /\ streamRef = 0 /\ OpenStreams = {}
  /\ \E k \in Ids : acq[k] = "rejected"

\* C7 (as claimed): the chunk buffer grows only while the state is
\* Recording or Paused, never once it is Stopped.
C7_NoAppendOnceStopped ==
  [][Len(chunksRef') > Len(chunksRef)
       => recordingState \in {"recording", "paused"}]_vars

ChunksOf(k) == {i \in DOMAIN chunksRef : chunksRef[i].rec = k}

\* C7 (amended): a chunk is appended only by the stop task of a recorder
\* that is already inactive, one chunk at the end of the buffer, at most one
\* per recorder, and in the same task the blob is assembled from the buffer
\* that holds it.
C7_AppendOnlyByStoppedRecorder ==
  /\ [](\A k \in Ids : Cardinality(ChunksOf(k)) <= 1)
  /\ [][Len(chunksRef') > Len(chunksRef)
          => \E k \in Ids :
               /\ ev[k] /\ ~ev'[k] /\ rec[k] = "inactive"
               /\ Len(chunksRef') = Len(chunksRef) + 1
               /\ SubSeq(chunksRef', 1, Len(chunksRef)) = chunksRef
               /\ chunksRef'[Len(chunksRef')].rec = k
               /\ (mounted => audioBlob' = Blob(chunksRef'))]_vars

C7_Witness ==
  /\ mounted /\ recordingState = "stopped"
  /\ chunksRef # <<>> /\ audioBlob = Blob(chunksRef)

\* C8 (as claimed): the assembled blob is defined exactly when the state is
\* Stopped.
C8_BlobIffStopped ==
  mounted => (audioBlob.defined <=> recordingState = "stopped")

\* C8 (amended): the blob and its preview URL are present or absent
\* together; the blob is set only by a recorder's stop task, to the buffered
\* chunks, and is cleared only by a discard, which leaves the state Idle.
C8_BlobSetByOnStopOnly ==
  /\ [](audioBlob.defined <=> audioUrl # 0)
  /\ [][audioBlob' # audioBlob
          => \/ /\ \E k \in Ids : ev[k] /\ ~ev'[k]
                /\ audioBlob' = Blob(chunksRef')
                /\ nextUrl' = nextUrl + 1 /\ audioUrl' = nextUrl'
             \/ /\ audioBlob' = NoBlob /\ audioUrl' = 0
                /\ recordingState' = "idle"]_vars

C8_Witness ==
  /\ mounted /\ recordingState = "stopped"
  /\ audioBlob.defined /\ audioBlob.parts # <<>> /\ audioUrl # 0

\* C9: when a stop completes, the assembled blob holds exactly the chunks
\* delivered by the recorder that was stopped, and no chunk of an earlier
\* recorder.
C9_BlobIsSessionChunks ==
  [][(audioBlob' # audioBlob /\ audioBlob'.defined)
       => \E k \in Ids :
            /\ ev[k] /\ ~ev'[k]
            /\ \A i \in DOMAIN audioBlob'.parts : audioBlob'.parts[i].rec = k]_vars

\* a step that begins a session (a startRecording completes) or ends one
\* (a discard)
SessionBoundary ==
  \/ /\ mediaRecorderRef' # mediaRecorderRef
     /\ recordingState' = "recording" /\ duration' = 0
  \/ recordingState' = "idle" /\ duration' = 0

\* C10: within a session the elapsed counter changes only by a +1 tick
\* taken while the state is Recording; pause and resume leave it unchanged,
\* it is constant in Paused and Stopped, and an interval is live only while
\* the state is Recording.
C10_ElapsedOnlyTicksWhileRecording ==
  /\ [](timerRef => (mounted /\ recordingState = "recording"))
  /\ [][duration' # duration
          => \/ /\ recordingState = "recording" /\ recordingState' = "recording"
                /\ duration' = duration + 1
                /\ mediaRecorderRef' = mediaRecorderRef
             \/ SessionBoundary]_vars
  /\ [][(recordingState \in {"recording", "paused"}
         /\ recordingState' \in {"recording", "paused"}
         /\ recordingState' # recordingState
         /\ mediaRecorderRef' = mediaRecorderRef)
          => duration' = duration]_vars

C10_Witness ==
  /\ recordingState = "paused" /\ duration > 0 /\ ~timerRef

\* C11: when the session is stopped, the elapsed counter (in seconds) and
\* the time spent in state Recording differ by at most one second.
C11_ElapsedWithinOneSecond ==
  recordingState = "stopped"
    => /\ duration * QuantaPerSecond - recorded <= QuantaPerSecond
       /\ recorded - duration * QuantaPerSecond <= QuantaPerSecond

\* C12: a call of pauseRecording in state Idle or Stopped changes nothing:
\* state, elapsed counter, chunk buffer, blob, URL, timer, refs, streams and
\* recorders stay as they were and no notification is shown.
C12_PauseOutsideRecordingIsNoOp ==
  [][(called' = "pause" /\ recordingState \in {"idle", "stopped"})
       => /\ UNCHANGED <<recordingState, duration, chunksRef, audioBlob,
                         audioUrl, timerRef, mediaRecorderRef, streamRef,
                         acq, rec, ev, liveUrls>>
          /\ toasts' = <<>>]_vars

\* pauseRecording was called in Idle after an earlier session, whose
\* MediaRecorder is still referenced
C12_Witness ==
  /\ called = "pause" /\ recordingState = "idle"
  /\ mediaRecorderRef # 0 /\ nextUrl > 0

\* C13: a call of discardRecording in state Stopped or Idle ends in Idle
\* with elapsed counter 0, empty chunk buffer, no blob and no preview URL;
\* a second call right after it changes nothing more, and a call in the
\* initial Idle state changes nothing.
Discarded ==
  /\ recordingState = "idle" /\ duration = 0 /\ chunksRef = <<>>
  /\ audioBlob = NoBlob /\ audioUrl = 0 /\ ~timerRef

C13_DiscardEndsIdle ==
  [][(called' = "discard" /\ recordingState \in {"idle", "stopped"})
       => /\ Discarded'
          /\ UNCHANGED <<mediaRecorderRef, streamRef, acq, rec, ev, nextUrl>>
          /\ liveUrls' = liveUrls \ {audioUrl}
          /\ (called = "discard" \/ Discarded)
                => UNCHANGED <<recordingState, duration, chunksRef, audioBlob,
                               audioUrl, timerRef, liveUrls>>]_vars

\* discardRecording was called in Stopped with an assembled blob
C13_Witness ==
  /\ called = "discard" /\ Discarded
  /\ nextUrl > 0 /\ liveUrls = {} /\ mediaRecorderRef # 0

\* C14: a successful startRecording ends in Recording with elapsed counter 0
\* and an empty chunk buffer, whatever the earlier session held, and while a
\* session is running or stopped no chunk delivered by the recorder of a
\* discarded session is in the chunk buffer or in the blob.
FromDiscarded(parts) == {i \in DOMAIN parts : parts[i].rec \in discarded}

C14_DiscardedSessionNeverReturns ==
  /\ [][(mediaRecorderRef' # mediaRecorderRef
          /\ rec'[mediaRecorderRef'] = "recording" /\ mounted)
            => /\ recordingState' = "recording"
               /\ duration' = 0 /\ chunksRef' = <<>>]_vars
  /\ []((mounted /\ recordingState # "idle")
          => /\ FromDiscarded(chunksRef) = {}
             /\ FromDiscarded(audioBlob.parts) = {})

\* C15: at every moment at most one preview URL is created and not yet
\* revoked, and none is while the state is Idle.
C15_AtMostOneLiveUrl ==
  /\ Cardinality(liveUrls) <= 1
  /\ recordingState = "idle" => liveUrls = {}

\* C16: when an upload request fails, the component stays mounted with
\* state, blob, preview URL, elapsed counter and chunk buffer as they were,
\* exactly one error notification is shown, no request is in flight
\* afterwards, isUploading is false again and the Upload control is available
\* again; every request sent carries the parts of the blob held at that
\* moment.
UploadFailure ==
  /\ upload.active /\ uploaded' = uploaded
  /\ upload' # upload \/ toasts' = <<"error_upload">>

C16_FailedUploadKeepsSession ==
  /\ [][UploadFailure
          => /\ UNCHANGED <<mounted, recordingState, duration, audioBlob,
                            audioUrl, chunksRef, liveUrls>>
             /\ toasts' = <<"error_upload">>
             /\ upload' = NoUpload
             /\ mounted => ~isUploading'
             /\ (mounted /\ PreviewShown) => PreviewShown']_vars
  /\ [][(upload'.active /\ ~upload.active)
          => /\ audioBlob.defined /\ UNCHANGED audioBlob
             /\ upload'.parts = audioBlob.parts]_vars

\* C17: formatDuration(s) is the decimal of floor(s / 60), a colon and the
\* decimal of s mod 60, each with leading zeros up to two digits and none
\* beyond; the minutes are not wrapped at 60 (3600 gives 60:00, 6000 gives
\* 100:00).
DigitValue(c) == (CHOOSE d \in 1..10 : DigitChars[d] = c) - 1

RECURSIVE ParseDecimal(_)
ParseDecimal(str) ==
  IF str = <<>> THEN 0
  ELSE 10 * ParseDecimal(SubSeq(str, 1, Len(str) - 1)) + DigitValue(str[Len(str)])

IsDecimal(str) ==
  /\ Len(str) >= 2
  /\ \A i \in DOMAIN str : \E d \in 1..10 : DigitChars[d] = str[i]
  /\ Len(str) > 2 => str[1] # "0"

C17_MinutesColonSeconds ==
  shown # <<>>
    => LET n == Len(shown)
           minutes == SubSeq(shown, 1, n - 3)
           secs == SubSeq(shown, n - 1, n)
       IN  /\ n >= 5 /\ shown[n - 2] = ":"
           /\ IsDecimal(minutes) /\ IsDecimal(secs)
           /\ ParseDecimal(minutes) = seconds \div 60
           /\ ParseDecimal(secs) = seconds % 60
           /\ seconds = 65 => shown = <<"0", "1", ":", "0", "5">>
           /\ seconds = 3600 => shown = <<"6", "0", ":", "0", "0">>
           /\ seconds = 6000 => shown = <<"1", "0", "0", ":", "0", "0">>

\* 6000 seconds were formatted
C17_Witness == seconds = 6000 /\ shown = <<"1", "0", "0", ":", "0", "0">>

\* C18: the files saved for the txt, pdf and docx formats have names with
\* the same base, the type's label, the patient name or 'Letter' and the
\* date joined by '_', and differ only in the extension.
BaseName(file) == SubSeq(file.name, 1, Len(file.name) - 2)

C18_SameBaseName ==
  /\ \A f \in Formats :
       saved[f] # NoFile
         => /\ Len(saved[f].name) = 7
            /\ BaseName(saved[f])
                 = <<LETTER_TYPE_LABELS[letter.letter_type], "_",
                     IF letter.patient_name \in {"undefined", ""}
                     THEN "Letter" ELSE letter.patient_name,
                     "_", today>>
            /\ SubSeq(saved[f].name, 6, 7) = <<".", f>>
  /\ \A f, g \in Formats :
       (saved[f] # NoFile /\ saved[g] # NoFile)
         => BaseName(saved[f]) = BaseName(saved[g])

\* a letter without patient name was exported in all three formats
C18_Witness ==
  /\ letter.patient_name = "undefined" /\ letter.letter_type = "sick_note"
  /\ \A f \in Formats : saved[f] # NoFile

\* C19: the payload of the exported text file is the UTF-8 encoding of the
\* content, every character of it in order and no other: decoded it is the
\* content, emphasis markers included; "Hello **world**" is exported as the
\* bytes of "Hello **world**".
RECURSIVE Utf8Decode(_)
Utf8Decode(bytes) ==
  IF bytes = <<>> THEN <<>>
  ELSE IF bytes[1] < 128
       THEN <<bytes[1]>> \o Utf8Decode(Tail(bytes))
       ELSE IF bytes[1] < 224
            THEN <<(bytes[1] - 192) * 64 + (bytes[2] - 128)>>
                   \o Utf8Decode(SubSeq(bytes, 3, Len(bytes)))
            ELSE <<(bytes[1] - 224) * 4096 + (bytes[2] - 128) * 64 + (bytes[3] - 128)>>
                   \o Utf8Decode(SubSeq(bytes, 4, Len(bytes)))

CodePoints(str) == [i \in DOMAIN str |-> codePointAt(str[i])]

C19_TextIsVerbatim ==
  saved["txt"] # NoFile
    => /\ Utf8Decode(saved["txt"].payload) = CodePoints(letter.content)
       /\ letter.content = HelloWorld
            => saved["txt"].payload
                 = <<72, 101, 108, 108, 111, 32, 42, 42,
                     119, 111, 114, 108, 100, 42, 42>>

\* a content with an emphasis marker and a two-byte character was exported
C19_Witness ==
  /\ letter.content = <<"*", "é">>
  /\ saved["txt"] # NoFile /\ saved["txt"].payload = <<42, 195, 169>>

\* C20: an export step, successful or failing, leaves the letter, the
\* edited content and the editing flag as they were; a failing one shows
\* exactly one error notification naming the format and saves nothing, and a
\* successful one saves the file determined by the letter, the content and
\* the date alone.
ExportFailed(f) == toasts' = <<"Failed to export as ", toUpperCase(f)>>
ExportDone(f) == toasts' = <<"Letter exported as ", toUpperCase(f)>>

C20_ExportChangesNothing ==
  [][(saved' # saved \/ packing' # packing
        \/ \E f \in Formats : ExportFailed(f) \/ ExportDone(f))
       => /\ UNCHANGED <<letter, editedContent, isEditing, today>>
          /\ \A f \in Formats :
               /\ ExportFailed(f) => UNCHANGED saved
               /\ (ExportDone(f) /\ f # "docx")
                    => saved' = [saved EXCEPT ![f] = ExportFile(f)]
               /\ ExportDone(f) => /\ saved'[f] # NoFile
                                   /\ \A g \in Formats \ {f} : saved'[g] = saved[g]]_vars

\* a pdf export failed after a txt export had succeeded
C20_Witness ==
  /\ toasts = <<"Failed to export as ", "PDF">>
  /\ saved["txt"] # NoFile /\ saved["pdf"] = NoFile
  /\ ~isEditing /\ editedContent = letter.content

\* C21: a line beginning with '#### ', '### ', '## ' or '# ' (longest
\* prefix first) is a heading of level 4, 3, 2 or 1 in both emitters, its
\* text the line without the marker and the space after it, and every line
\* has the same class (heading level, plain, blank) in both emitters.
Hashes(n) == [i \in 1..n |-> "#"] \o <<" ">>

HeadingLevel(str) ==
  IF \E n \in 1..4 : startsWith(str, Hashes(n))
  THEN CHOOSE n \in 1..4 : startsWith(str, Hashes(n))
  ELSE 0

PdfClass(out) ==
  CASE ~out.draws -> "blank"
    [] out.draws /\ out.fontStyle = "bold" /\ out.fontSize = 13 -> "heading 3"
    [] out.draws /\ out.fontStyle = "bold" /\ out.fontSize = 12 -> "heading 4"
    [] OTHER -> "plain"

DocxClass(out) ==
  CASE out.heading = "HEADING_2" -> "heading 3"
    [] out.heading = "HEADING_3" -> "heading 4"
    [] out.hasRuns -> "plain"
    [] OTHER -> "blank"

ClassOfLevel(n) ==
  CASE n = 1 -> "heading 1" [] n = 2 -> "heading 2"
    [] n = 3 -> "heading 3" [] n = 4 -> "heading 4"

C21_SameHeadingRule ==
  (pdfLine # NoLine /\ docxLine # NoLine)
    => /\ PdfClass(pdfLine) = DocxClass(docxLine)
       /\ HeadingLevel(line) # 0
            => /\ PdfClass(pdfLine) = ClassOfLevel(HeadingLevel(line))
               /\ DocxClass(docxLine) = ClassOfLevel(HeadingLevel(line))
               /\ pdfLine.text = SubSeq(line, HeadingLevel(line) + 2, Len(line))
               /\ docxLine.text = SubSeq(line, HeadingLevel(line) + 2, Len(line))

\* C27: for every non-heading, non-blank line the concatenated text of the
\* Word emitter's runs equals the text the PDF emitter draws: both remove the
\* same '**' and '*' delimiter characters, also for unpaired, adjacent or
\* empty marker pairs.
RECURSIVE RunsText(_)
RunsText(children) ==
  IF children = <<>> THEN <<>>
  ELSE Head(children).text \o RunsText(Tail(children))

PlainLineEmitted ==
  /\ pdfLine # NoLine /\ docxLine # NoLine
  /\ PdfClass(pdfLine) = "plain" /\ DocxClass(docxLine) = "plain"

C27_SameTextAfterStripping ==
  PlainLineEmitted => RunsText(docxLine.children) = pdfLine.text

\* the two emitters at least agree on the class of every line
LineClassesAgree ==
  (pdfLine # NoLine /\ docxLine # NoLine)
    => PdfClass(pdfLine) = DocxClass(docxLine)

\* lines whose markers are well-formed pairs: no "*" at all, or one pair
WellFormedAgree ==
  (PlainLineEmitted /\ \A i \in DOMAIN line : line[i] # "*")
    => RunsText(docxLine.children) = pdfLine.text /\ pdfLine.text = line

\* C22: for the content "### Heading\nPlain line with *italic* and
\* **bold**.\n\nSecond paragraph." the body of the exported Word document is
\* one heading paragraph, one paragraph of runs, one empty paragraph and one
\* closing paragraph, in that order; the paragraph of runs has five runs:
\* plain "Plain line with ", italic "italic", plain " and ", bold "bold" and
\* plain ".".
DocxBodyOf(file) == file.payload[2]

SampleExported ==
  /\ letter.content = SampleContent
  /\ saved["docx"] # NoFile

Run(text, bold, italics) == [text |-> text, bold |-> bold, italics |-> italics]

FourParagraphs(body) ==
  /\ Len(body) = 4
  /\ body[1] = TextParagraph(<<"H", "e", "a", "d", "i", "n", "g">>, "HEADING_2")
  /\ body[2].hasRuns /\ body[2].heading = "none"
  /\ body[3] = TextParagraph(<<>>, "none")
  /\ body[4].hasRuns /\ body[4].heading = "none"
  /\ body[4].children = <<Run(<<"S", "e", "c", "o", "n", "d", " ", "p", "a", "r", "a", "g", "r", "a", "p", "h", ".">>, FALSE, FALSE)>>

\* the statement with three runs in the second paragraph
C22_ThreeRuns ==
  SampleExported
    => /\ FourParagraphs(DocxBodyOf(saved["docx"]))
       /\ Len(DocxBodyOf(saved["docx"])[2].children) = 3

C22_FiveRuns ==
  SampleExported
    => /\ FourParagraphs(DocxBodyOf(saved["docx"]))
       /\ DocxBodyOf(saved["docx"])[2].children
            = <<Run(<<"P", "l", "a", "i", "n", " ", "l", "i", "n", "e", " ", "w", "i", "t", "h", " ">>, FALSE, FALSE),
                Run(<<"i", "t", "a", "l", "i", "c">>, FALSE, TRUE),
                Run(<<" ", "a", "n", "d", " ">>, FALSE, FALSE),
                Run(<<"b", "o", "l", "d">>, TRUE, FALSE),
                Run(<<".">>, FALSE, FALSE)>>

\* the sample content was exported as a Word document
C22_Witness ==
  /\ SampleExported
  /\ toasts = <<"Letter exported as ", "DOCX">>
  /\ Len(DocxBodyOf(saved["docx"])) = 4

\* C25: for every combination of present and absent patient name, age and
\* gender the header paragraphs of the exported Word document carry the same
\* lines as the header of the exported PDF: the type label, then
\* 'Patient: X' if there is a name, then one line holding whichever of
\* 'Age: N' and 'Gender: G' is present, joined by ', ', and nothing more.
PdfHeaderOf(file) == file.payload[1]
DocxHeaderOf(file) == file.payload[1]

\* the texts of the paragraphs that carry text
RECURSIVE HeaderLines(_)
HeaderLines(paragraphs) ==
  IF paragraphs = <<>> THEN <<>>
  ELSE (IF Head(paragraphs).text = <<>> THEN <<>> ELSE <<Head(paragraphs).text>>)
         \o HeaderLines(Tail(paragraphs))

ExpectedHeader(l) ==
  <<<<LETTER_TYPE_LABELS[l.letter_type]>>>>
    \o (IF l.patient_name \in {"undefined", ""} THEN <<>>
        ELSE <<<<"Patient: ", l.patient_name>>>>)
    \o (CASE l.patient_age = "undefined" /\ l.patient_gender = "undefined" -> <<>>
          [] l.patient_age # "undefined" /\ l.patient_gender = "undefined"
               -> <<<<"Age: ", l.patient_age>>>>
          [] l.patient_age = "undefined" /\ l.patient_gender # "undefined"
               -> <<<<"Gender: ", l.patient_gender>>>>
          [] OTHER -> <<<<"Age: ", l.patient_age, ", ", "Gender: ", l.patient_gender>>>>)

C25_SameHeaderLines ==
  /\ saved["pdf"] # NoFile
       => HeaderLines(PdfHeaderOf(saved["pdf"])) = ExpectedHeader(letter)
  /\ saved["docx"] # NoFile
       => HeaderLines(DocxHeaderOf(saved["docx"])) = ExpectedHeader(letter)

\* the header of the exported PDF alone follows the rule
PdfHeaderAsStated ==
  saved["pdf"] # NoFile
    => HeaderLines(PdfHeaderOf(saved["pdf"])) = ExpectedHeader(letter)

\* the two headers agree unless both age and gender are present
HeadersAgreeOtherwise ==
  (saved["pdf"] # NoFile /\ saved["docx"] # NoFile
     /\ (letter.patient_age = "undefined" \/ letter.patient_gender = "undefined"))
    => HeaderLines(DocxHeaderOf(saved["docx"]))
         = HeaderLines(PdfHeaderOf(saved["pdf"]))

\* C23: every line of text the PDF emitter draws, every header line and
\* every wrapped sub-line of every content line, is placed at a vertical
\* position between the margin and the page height less the margin.
PrintableBottom == pageHeight - margin

TextDrawn == pdfStage \in {"body", "saved"} /\ textBottom # 0

C23_TextInsidePrintableRegion ==
  TextDrawn => /\ margin <= textTop
               /\ textBottom <= PrintableBottom

\* the first sub-line of every text is inside the region
FirstLineInside ==
  TextDrawn => margin <= textTop /\ textTop <= PrintableBottom

\* C24: a saved PDF whose body did not fit between the margins of one page
\* has at least two pages, and a pass of the body loop that adds a page
\* draws its text from the top margin.
BodyOverflowsOnePage ==
  pdfStage = "saved" /\ pages = 1 /\ yPosition > PrintableBottom

C24_OverflowAddsPage ==
  /\ [](~BodyOverflowsOnePage)
  /\ [][pages' > pages /\ pages >= 1
          => /\ pages' = pages + 1
             /\ textTop' \in {0, margin}
             /\ yPosition' > margin]_vars

\* a pass that adds a page restarts the cursor at the top margin
BreakRestartsAtMargin ==
  [][pages' > pages /\ pages >= 1
       => /\ pages' = pages + 1
          /\ textTop' \in {0, margin}]_vars

\* C26: whatever handlers are called and in whatever state, the recorder
\* state changes only along five transitions: Idle to Recording by start,
\* Recording to Paused by pause, Paused to Recording by resume, Recording or
\* Paused to Stopped by stop, Stopped to Idle by discard.
Transition(from, to) == recordingState = from /\ recordingState' = to

\* the step is the continuation of a startRecording call
StartContinues ==
  /\ called' = "none"
  /\ mediaRecorderRef' # mediaRecorderRef
  /\ rec'[mediaRecorderRef'] = "recording"

TableTransition ==
  \/ Transition("idle", "recording") /\ StartContinues
  \/ Transition("recording", "paused") /\ called' = "pause"
  \/ Transition("paused", "recording") /\ called' = "resume"
  \/ Transition("recording", "stopped") /\ called' = "stop"
  \/ Transition("paused", "stopped") /\ called' = "stop"
  \/ Transition("stopped", "idle") /\ called' = "discard"

C26_OnlyTableTransitions ==
  [][recordingState' # recordingState => TableTransition]_vars

\* stopRecording called in Idle leaves the state Idle
StopInIdleIgnored ==
  [][(called' = "stop" /\ recordingState = "idle") => recordingState' = "idle"]_vars

\* discardRecording called in Recording or Paused leaves the state
DiscardWhileCapturingIgnored ==
  [][(called' = "discard" /\ recordingState \in {"recording", "paused"})
       => recordingState' = recordingState]_vars

\* pauseRecording and resumeRecording change the state only along the table
PauseResumeFollowTable ==
  [][(called' \in {"pause", "resume"} /\ recordingState' # recordingState)
       => TableTransition]_vars

\* C28: a successful upload ends with the session discarded (state Idle, no
\* blob, the preview URL revoked, the counter 0) and onRecordingUploaded
\* called exactly once; while an upload is in flight the Upload and Discard
\* controls are disabled, so no second request is sent and the session is
\* neither discarded nor restarted underneath it.
UploadSuccess == upload.active /\ uploaded' = uploaded + 1

SuccessDiscardsSession ==
  [][(UploadSuccess /\ mounted)
       => /\ recordingState' = "idle"
          /\ ~audioBlob'.defined
          /\ audioUrl' = 0
          /\ upload.url \notin liveUrls'
          /\ duration' = 0
          /\ ~upload'.active /\ ~isUploading']_vars

CallbackOncePerUpload ==
  [][uploaded' # uploaded => (upload.active /\ uploaded' = uploaded + 1)]_vars

ControlsDisabledInFlight ==
  [](upload.active /\ mounted => isUploading)

OneRequestPerBlob ==
  [][upload.active => (upload' = upload \/ upload' = NoUpload)]_vars

SessionKeptInFlight ==
  [][(upload.active /\ upload'.active /\ mounted')
       => UNCHANGED <<recordingState, audioBlob, audioUrl, duration>>]_vars

C28_UploadOwnsSession ==
  /\ SuccessDiscardsSession
  /\ CallbackOncePerUpload
  /\ ControlsDisabledInFlight
  /\ OneRequestPerBlob
  /\ SessionKeptInFlight

\* C29: whenever no login is under way and a token is stored, a user record
\* is stored too: a failed login attempt leaves no token behind, and logout
\* and a 401 answer on a protected page remove both token and user.
C29_TokenImpliesUser ==
  /\ [](loginStep = "idle" /\ isAuthenticated => localStorage.user # 0)
  /\ [][(pathname \in ProtectedPaths /\ pathname' = "/auth/login"
           /\ localStorage' # localStorage)
          => localStorage' = NoSession]_vars

\* logout and the 401 answer on a protected page remove token and user
LogoutRemovesBoth ==
  [][(pathname \in ProtectedPaths /\ pathname' = "/auth/login"
        /\ localStorage' # localStorage)
       => localStorage' = NoSession]_vars

\* a user record is never stored without a token
UserImpliesToken ==
  localStorage.user # 0 => localStorage.token # 0

\* C30: the export and copy actions act only when the viewer is not
\* editing, and whenever it is not editing the content they use is the
\* letter's saved content: Cancel restores it, a failed save keeps the
\* editor open with the edits, a successful save closes the editor with the
\* edited text equal to what was sent; no export or copy emits unsaved edits.
Emits ==
  \/ \E f \in {"txt", "pdf"} : toasts' = <<"Letter exported as ", toUpperCase(f)>>
  \/ Len(packing') > Len(packing)
  \/ clipboard' # clipboard

EmitsOnlyWhenNotEditing == [][Emits => ~isEditing]_vars

CancelRestores ==
  [][(isEditing /\ ~isEditing' /\ ~patch.active)
       => editedContent' = letter.content]_vars

FailedSaveKeepsEdits ==
  [][(patch.active /\ toasts' = <<"Failed to update letter">>)
       => /\ isEditing' = isEditing
          /\ UNCHANGED <<editedContent, letter>>]_vars

SavedEqualsSent ==
  [][(patch.active /\ toasts' = <<"Letter updated successfully">>)
       => /\ ~isEditing'
          /\ letter'.content = patch.content
          /\ editedContent' = patch.content]_vars

ShownIsSaved == ~isEditing => editedContent = letter.content

C30_ExportsSavedContent ==
  /\ EmitsOnlyWhenNotEditing
  /\ CancelRestores
  /\ FailedSaveKeepsEdits
  /\ SavedEqualsSent
  /\ []ShownIsSaved
  /\ [][Emits => editedContent = letter.content]_vars

====
